---------------------------- MODULE Spec2Model ----------------------------
(***************************************************************************)
(* A model of the University of Bristol chatbot: the keyword variant       *)
(* (src/app.py) and the RAG variant (src/app_old.py).                      *)
(*                                                                         *)
(* Text is modelled by TLA+ strings, on which TLC evaluates Len, \o,       *)
(* SubSeq and Tail character by character.  The 'timestamp' field of a    *)
(* stored turn is written and never read by either program; it is left    *)
(* out of the turn records.                                                *)
(***************************************************************************)
EXTENDS Integers, Sequences, FiniteSets, TLC

VARIABLES
    variant,        \* which program runs: "keyword" (app.py) or "rag" (app_old.py)
    phase,          \* position of the process: start, the steps of start-up, serving, exited
    documents,      \* app_old.py: number of pages loader.load() returned (None before)
    vectorstore,    \* app_old.py: global vectorstore (None, or the chunks indexed)
    qa_chain,       \* app_old.py: global qa_chain (None, or the chain)
    failed,         \* whether a step of initialize_rag_system has failed
    conversations,  \* global conversations: conversation id -> list of turns
    request,        \* the request the server handled last (NoRequest before the first)
    response,       \* the HTTP response to it
    invoked,        \* whether qa_chain.invoke was called while handling it
    arg,            \* the argument of a direct call of a pure function
    ret,            \* its result (NotCalled before the call)
    threads         \* the chat requests in flight when requests are handled in parallel

vars == << variant, phase, documents, vectorstore, qa_chain, failed,
           conversations, request, response, invoked, arg, ret, threads >>

serverVars == << variant, phase, documents, vectorstore, qa_chain, failed,
                 conversations, request, response, invoked >>

\* Python's None; every value it is compared with is a record.
None == [none |-> TRUE]
NotCalled == [called |-> FALSE]
NoRequest == [kind |-> "none"]

------------------------------------------------------------------------------
(* Bounds of the model *)

\* Pieces concatenated into a query given to find_best_response.
MaxWords == 2
\* Chunks a retrieval returns at most when the source attribution is called directly.
MaxRetrieved == 5
\* Turns the conversation store holds at most in one run.
MaxTurns == 4
\* Pages the PDF loader returns at most.
MaxPages == 1

------------------------------------------------------------------------------
(* Python's str operations, character by character *)

UpperCase == "ABCDEFGHIJKLMNOPQRSTUVWXYZ"
LowerCase == "abcdefghijklmnopqrstuvwxyz"
Whitespace == {" ", "\t", "\n", "\r"}

\* One character of str.lower().
LowerChar(c) ==
    IF \E i \in 1..Len(UpperCase) : SubSeq(UpperCase, i, i) = c
    THEN LET i == CHOOSE i \in 1..Len(UpperCase) : SubSeq(UpperCase, i, i) = c
         IN  SubSeq(LowerCase, i, i)
    ELSE c

RECURSIVE lower(_)
lower(s) == IF s = "" THEN "" ELSE LowerChar(SubSeq(s, 1, 1)) \o lower(Tail(s))

RECURSIVE lstrip(_)
lstrip(s) == IF s # "" /\ SubSeq(s, 1, 1) \in Whitespace THEN lstrip(Tail(s)) ELSE s

RECURSIVE rstrip(_)
rstrip(s) ==
    IF s # "" /\ SubSeq(s, Len(s), Len(s)) \in Whitespace
    THEN rstrip(SubSeq(s, 1, Len(s) - 1))
    ELSE s

\* Mutant of strip: the message is used as it was sent.
strip_not_applied(s) == s

strip(s) == rstrip(lstrip(s))

\* Python's 'k in m' on strings.
Contains(m, k) ==
    \E i \in 1..(Len(m) - Len(k) + 1) : SubSeq(m, i, i + Len(k) - 1) = k

\* str.replace(old, new), old non-empty: left to right, non-overlapping.
RECURSIVE replace(_, _, _)
replace(s, old, new) ==
    IF Len(s) < Len(old) THEN s
    ELSE IF SubSeq(s, 1, Len(old)) = old
         THEN new \o replace(SubSeq(s, Len(old) + 1, Len(s)), old, new)
         ELSE SubSeq(s, 1, 1) \o replace(Tail(s), old, new)

------------------------------------------------------------------------------
(* src/app.py: the knowledge base and the keyword matcher *)

\* The categories in insertion order; each response is named by its heading.
KNOWLEDGE_BASE ==
    << [category |-> "courses_undergraduate",
        keywords |-> << "undergraduate", "ug", "bachelor", "bsc", "ba", "beng", "msci", "llb", "degree", "course", "program", "study" >>,
        response |-> "**Undergraduate Courses at University of Bristol**"],
       [category |-> "courses_postgraduate",
        keywords |-> << "postgraduate", "masters", "msc", "ma", "mba", "pgt", "pgr", "taught", "research" >>,
        response |-> "**Postgraduate Courses at University of Bristol**"],
       [category |-> "accommodation",
        keywords |-> << "accommodation", "housing", "halls", "residence", "rent", "room", "living", "stay", "hiatt", "churchill", "wills", "goldney", "colston", "orchard" >>,
        response |-> "**University of Bristol Accommodation**"],
       [category |-> "extensions_ec",
        keywords |-> << "extension", "exceptional circumstances", "ec", "deadline", "late", "illness", "mitigating", "appeal", "suspension" >>,
        response |-> "**Extensions & Exceptional Circumstances (EC)**"],
       [category |-> "study_skills",
        keywords |-> << "study skills", "writing", "workshop", "academic", "essay", "dissertation", "referencing", "citation", "tutoring", "support" >>,
        response |-> "**Study Skills & Writing Workshops**"],
       [category |-> "scholarships",
        keywords |-> << "scholarship", "funding", "bursary", "financial", "aid", "money", "think big", "great", "commonwealth", "stipend" >>,
        response |-> "**Scholarships & Funding**"],
       [category |-> "sports",
        keywords |-> << "sport", "sports", "gym", "fitness", "exercise", "club", "team", "football", "rugby", "rowing", "activities", "recreation" >>,
        response |-> "**Sports, Fitness & Activities**"],
       [category |-> "contacts_departments",
        keywords |-> << "contact", "email", "phone", "department", "office", "engineering", "computer science", "business", "medicine", "law", "arts" >>,
        response |-> "**Department Contacts (Academic Year 2025-2026)**"],
       [category |-> "student_services",
        keywords |-> << "student services", "support", "wellbeing", "counseling", "disability", "health", "careers", "library", "registry", "finance" >>,
        response |-> "**Central Student Support Services**"] >>

\* The generic menu find_best_response returns when nothing matched.
MenuResponse == "I can help you with University of Bristol information from these datasets: ..."

\* The inner loop: score += 1 for every keyword that occurs in the message.
Score(keywords, message) ==
    Cardinality({ i \in 1..Len(keywords) : Contains(message, keywords[i]) })

\* Mutant of Matches: a category is recorded whatever its score ('score >= 0').
RECURSIVE MatchesAnyScore(_, _)
MatchesAnyScore(kb, message) ==
    IF kb = << >> THEN << >>
    ELSE << << Score(Head(kb).keywords, message), Head(kb).response >> >>
         \o MatchesAnyScore(Tail(kb), message)

\* The outer loop: (score, response) of every category that scored, in insertion order.
RECURSIVE Matches(_, _)
Matches(kb, message) ==
    IF kb = << >> THEN << >>
    ELSE LET score == Score(Head(kb).keywords, message)
             rest  == Matches(Tail(kb), message)
         IN  IF score > 0 THEN << << score, Head(kb).response >> >> \o rest ELSE rest

\* Mutant of InsertDesc: an element passes the elements of equal key too, as in a
\* sort that is not stable.
RECURSIVE InsertDescUnstable(_, _)
InsertDescUnstable(sorted, m) ==
    IF sorted # << >> /\ sorted[Len(sorted)][1] <= m[1]
    THEN InsertDescUnstable(SubSeq(sorted, 1, Len(sorted) - 1), m) \o << sorted[Len(sorted)] >>
    ELSE sorted \o << m >>

\* Mutant of SortDesc: the sort without reverse=True, ascending on the key.
RECURSIVE SortAscending(_)
SortAscending(matches) ==
    IF matches = << >> THEN << >>
    ELSE LET rest == SortAscending(Tail(matches))
             lower_keys == SelectSeq(rest, LAMBDA x : x[1] < Head(matches)[1])
             other_keys == SelectSeq(rest, LAMBDA x : x[1] >= Head(matches)[1])
         IN  lower_keys \o << Head(matches) >> \o other_keys

\* list.sort(reverse=True, key=lambda x: x[0]): descending on the key, stable
\* (elements of equal key keep their order).  An insertion from the right end
\* that stops at the first element whose key is not smaller.
RECURSIVE InsertDesc(_, _)
InsertDesc(sorted, m) ==
    IF sorted # << >> /\ sorted[Len(sorted)][1] < m[1]
    THEN InsertDesc(SubSeq(sorted, 1, Len(sorted) - 1), m) \o << sorted[Len(sorted)] >>
    ELSE sorted \o << m >>

RECURSIVE SortDesc(_)
SortDesc(matches) ==
    IF matches = << >> THEN << >>
    ELSE InsertDesc(SortDesc(SubSeq(matches, 1, Len(matches) - 1)), matches[Len(matches)])

\* Mutant of find_best_response: a conversation that holds earlier turns is
\* answered with the menu.
find_best_response_by_history(user_message, conversation_id) ==
    LET message == strip(lower(user_message))
        matches == Matches(KNOWLEDGE_BASE, message)
    IN  IF /\ conversation_id \in DOMAIN conversations
           /\ conversations[conversation_id] # << >>
        THEN MenuResponse
        ELSE IF matches # << >> THEN SortDesc(matches)[1][2] ELSE MenuResponse

find_best_response(user_message, conversation_id) ==
    LET message == strip(lower(user_message))
        matches == Matches(KNOWLEDGE_BASE, message)
    IN  IF matches # << >> THEN SortDesc(matches)[1][2] ELSE MenuResponse

------------------------------------------------------------------------------
(* find_best_response called directly *)

\* The pieces a query is made of: words that hit no keyword, one keyword, several
\* keywords of one category, and keywords of several categories; upper case and
\* surrounding white space.
Pieces ==
    { "hello", " ", "Gym", "sports", "MBA", "masters", "support", "email",
      "study skills", "Rent", "EC" }

RECURSIVE Concat(_)
Concat(ws) == IF ws = << >> THEN "" ELSE Head(ws) \o Concat(Tail(ws))

Queries ==
    { Concat(ws) : ws \in UNION { [1..n -> Pieces] : n \in 0..MaxWords } }

InitServerIdle ==
    /\ variant = "keyword"
    /\ phase = "start"
    /\ documents = None
    /\ vectorstore = None
    /\ qa_chain = None
    /\ failed = FALSE
    /\ conversations = << >>
    /\ request = NoRequest
    /\ response = None
    /\ invoked = FALSE
    /\ threads = << >>

InitMatch ==
    /\ InitServerIdle
    /\ arg \in Queries
    /\ ret = NotCalled

CallFindBestResponse ==
    /\ ret = NotCalled
    /\ ret' = [called |-> TRUE, value |-> find_best_response(arg, "default")]
    /\ UNCHANGED << arg, serverVars, threads >>

NextMatch == CallFindBestResponse

SpecMatch == InitMatch /\ [][NextMatch]_vars

------------------------------------------------------------------------------
(* src/app_old.py: the source attribution of chat() *)

\* pathlib's Path(source).name on a POSIX path: the text after the last "/".
RECURSIVE PathName(_)
PathName(source) ==
    IF Contains(source, "/")
    THEN PathName(Tail(source))
    ELSE source

\* doc.metadata.get('source', 'Unknown')
MetadataSource(doc) ==
    IF "source" \in DOMAIN doc.metadata THEN doc.metadata.source ELSE "Unknown"

\* clean_name = source_file.replace('_', ' ').replace('.pdf', '')
CleanName(doc) ==
    replace(replace(PathName(MetadataSource(doc)), "_", " "), ".pdf", "")

InList(x, list) == \E i \in 1..Len(list) : list[i] = x

\* The loop over source_docs: a clean name is appended unless it is in the list.
RECURSIVE CollectSources(_, _)
CollectSources(sources, source_docs) ==
    IF source_docs = << >> THEN sources
    ELSE LET clean_name == CleanName(Head(source_docs))
         IN  CollectSources(IF ~InList(clean_name, sources)
                            THEN Append(sources, clean_name)
                            ELSE sources,
                            Tail(source_docs))

\* Mutant of ShownSources: the slice [:3] is missing.
ShownSourcesAll(sources) == sources

\* sources[:3]
MaxShownSources == 3
ShownSources(sources) ==
    SubSeq(sources, 1, IF Len(sources) < MaxShownSources THEN Len(sources) ELSE MaxShownSources)

\* '\n'.join(lines)
RECURSIVE JoinLines(_)
JoinLines(lines) ==
    IF lines = << >> THEN ""
    ELSE IF Len(lines) = 1 THEN lines[1]
    ELSE lines[1] \o "\n" \o JoinLines(Tail(lines))

\* The bullet of a source line (the source writes U+2022, written * here).
Bullet == "  * "
SourcesHeader == "\n\n**Sources:**\n"

\* Lines 174-188: the answer with its Sources section.
AddSources(bot_response, source_docs) ==
    IF source_docs # << >>
    THEN LET sources == CollectSources(<< >>, source_docs)
             shown == ShownSources(sources)
         IN  IF sources # << >>
             THEN bot_response \o SourcesHeader \o
                  JoinLines([i \in 1..Len(shown) |-> Bullet \o shown[i]])
             ELSE bot_response
    ELSE bot_response

------------------------------------------------------------------------------
(* The source attribution called directly *)

\* The retriever's k (search_kwargs={"k": 5}).
RetrieverK == 5

Doc(source) == [page_content |-> "chunk", metadata |-> [source |-> source, page |-> 0]]
DocNoSource == [page_content |-> "chunk", metadata |-> [page |-> 0]]

\* Chunks of two files whose names differ only by "_", of a file in a subfolder,
\* of a file without a folder, and a chunk without a source.
Docs ==
    { Doc("datasets/a_b.pdf"), Doc("datasets/a b.pdf"), Doc("datasets/sub/c.pdf"),
      Doc("d.pdf"), DocNoSource }

RetrievedLists ==
    UNION { [1..n -> Docs] : n \in 0..MaxRetrieved }

Answer == "See the course list."

InitSources ==
    /\ InitServerIdle
    /\ arg \in RetrievedLists
    /\ ret = NotCalled

CallAddSources ==
    /\ ret = NotCalled
    /\ ret' = [called |-> TRUE, value |-> AddSources(Answer, arg)]
    /\ UNCHANGED << arg, serverVars, threads >>

NextSources == CallAddSources

SpecSources == InitSources /\ [][NextSources]_vars

------------------------------------------------------------------------------
(* The server: requests and the conversation store *)

\* A key the request body does not hold, and a JSON null.
Absent == "<absent>"
Null == "<null>"

\* The 'message' values of a chat request: strings, blank or not, with and
\* without surrounding white space.
MessageTexts == { "", "  ", " Gym ", "hello" }
Messages == MessageTexts \cup { Absent, Null }

\* The 'conversation_id' values of a chat request, and the ids of a history request.
ConversationIds == { "default", "c1" }
RequestIds == ConversationIds \cup { Absent }
HistoryIds == ConversationIds \cup { "c2" }

\* data.get(key, default)
DataGet(value, default) == IF value = Absent THEN default ELSE value

Turn(role, message) == [role |-> role, message |-> message]

\* Mutant of AppendTurn: the list is created without the 'not in' test.
AppendTurnFresh(store, conversation_id, turn) ==
    [c \in DOMAIN store \cup { conversation_id } |->
        IF c = conversation_id THEN << turn >> ELSE store[c]]

\* if conversation_id not in conversations: conversations[conversation_id] = []
\* conversations[conversation_id].append(turn)
AppendTurn(store, conversation_id, turn) ==
    LET known == IF conversation_id \in DOMAIN store
                 THEN store
                 ELSE [c \in DOMAIN store \cup { conversation_id } |->
                          IF c = conversation_id THEN << >> ELSE store[c]]
    IN  [known EXCEPT ![conversation_id] = Append(@, turn)]

RECURSIVE SumTurns(_, _)
SumTurns(store, ids) ==
    IF ids = {} THEN 0
    ELSE LET c == CHOOSE c \in ids : TRUE
         IN  Len(store[c]) + SumTurns(store, ids \ { c })

TotalTurns(store) == SumTurns(store, DOMAIN store)

\* jsonify(body), status
Reply(status, body) == [status |-> status, body |-> body]

\* str(e) of the AttributeError raised by None.strip()
NoneStripError == "'NoneType' object has no attribute 'strip'"

------------------------------------------------------------------------------
(* src/app.py: chat() and health_check() *)

ChatKeyword(message, conversation_id) ==
    /\ variant = "keyword"
    /\ phase = "serving"
    /\ request' = [kind |-> "chat", message |-> message, conversation_id |-> conversation_id]
    /\ invoked' = FALSE
    /\ IF DataGet(message, "") = Null
       THEN \* .strip() raises; except Exception: 500
            /\ response' = Reply(500, [error |-> NoneStripError])
            /\ UNCHANGED conversations
       ELSE LET user_message == strip(DataGet(message, ""))
                id == DataGet(conversation_id, "default")
            IN  IF user_message = ""
                THEN /\ response' = Reply(400, [error |-> "Empty message"])
                     /\ UNCHANGED conversations
                ELSE LET bot_response == find_best_response(user_message, id)
                     IN  /\ TotalTurns(conversations) + 2 <= MaxTurns
                         /\ conversations' =
                                AppendTurn(AppendTurn(conversations, id,
                                                      Turn("user", user_message)),
                                           id, Turn("bot", bot_response))
                         /\ response' = Reply(200, [response |-> bot_response,
                                                     status |-> "success"])
    /\ UNCHANGED << variant, phase, documents, vectorstore, qa_chain, failed, arg, ret, threads >>

Categories == [i \in 1..Len(KNOWLEDGE_BASE) |-> KNOWLEDGE_BASE[i].category]

HealthKeyword ==
    /\ variant = "keyword"
    /\ phase = "serving"
    /\ request' = [kind |-> "health"]
    /\ invoked' = FALSE
    /\ response' = Reply(200, [status |-> "healthy",
                               data_sources |-> Len(KNOWLEDGE_BASE),
                               datasets |-> Categories])
    /\ UNCHANGED << variant, phase, documents, vectorstore, qa_chain, failed,
                    conversations, arg, ret, threads >>

------------------------------------------------------------------------------
(* src/app_old.py: initialize_rag_system() and the __main__ block *)

\* A step of the start-up ends the process: 'return False' and exit(1) in
\* __main__, or an exception no handler catches.
Abort ==
    /\ failed' = TRUE
    /\ phase' = "exited"

\* python app.py / python app_old.py: the __main__ block runs.
RunMain ==
    /\ phase = "start"
    /\ phase' = IF variant = "rag" THEN "datasets" ELSE "serving"
    /\ UNCHANGED << variant, documents, vectorstore, qa_chain, failed,
                    conversations, request, response, invoked, arg, ret, threads >>

\* The module is imported (a WSGI host, a test client): the __main__ block does
\* not run and the routes are served with the globals as the module set them.
ImportApp ==
    /\ phase = "start"
    /\ phase' = "serving"
    /\ UNCHANGED << variant, documents, vectorstore, qa_chain, failed,
                    conversations, request, response, invoked, arg, ret, threads >>

\* 1. if not datasets_path.exists(): return False
InitDatasets(exists) ==
    /\ phase = "datasets"
    /\ IF exists THEN phase' = "load" /\ UNCHANGED failed ELSE Abort
    /\ UNCHANGED << variant, documents, vectorstore, qa_chain,
                    conversations, request, response, invoked, arg, ret, threads >>

\* Mutant of InitLoad: the test 'len(documents) == 0' is missing.
InitLoadNoEmptyTest(raises, pages) ==
    /\ phase = "load"
    /\ IF raises
       THEN Abort /\ UNCHANGED documents
       ELSE /\ documents' = [pages |-> pages]
            /\ phase' = "split"
            /\ UNCHANGED failed
    /\ UNCHANGED << variant, vectorstore, qa_chain,
                    conversations, request, response, invoked, arg, ret, threads >>

\* documents = loader.load(), which raises or returns the pages; no page: return False
InitLoad(raises, pages) ==
    /\ phase = "load"
    /\ IF raises
       THEN Abort /\ UNCHANGED documents
       ELSE /\ documents' = [pages |-> pages]
            /\ IF pages = 0 THEN Abort ELSE phase' = "split" /\ UNCHANGED failed
    /\ UNCHANGED << variant, vectorstore, qa_chain,
                    conversations, request, response, invoked, arg, ret, threads >>

\* 2. text_splitter.split_documents(documents)   3. HuggingFaceEmbeddings(...)
\* Neither is in a try block.
InitSplit(raises) ==
    /\ phase = "split"
    /\ IF raises THEN Abort ELSE phase' = "embed" /\ UNCHANGED failed
    /\ UNCHANGED << variant, documents, vectorstore, qa_chain,
                    conversations, request, response, invoked, arg, ret, threads >>

InitEmbeddings(raises) ==
    /\ phase = "embed"
    /\ IF raises THEN Abort ELSE phase' = "index" /\ UNCHANGED failed
    /\ UNCHANGED << variant, documents, vectorstore, qa_chain,
                    conversations, request, response, invoked, arg, ret, threads >>

\* 4. vectorstore = Chroma.from_documents(documents=texts, ...): the global is
\* assigned when the call returns, with the chunks of every page loaded.
InitVectorstore(raises) ==
    /\ phase = "index"
    /\ IF raises
       THEN Abort /\ UNCHANGED vectorstore
       ELSE /\ vectorstore' = [indexed |-> documents.pages]
            /\ phase' = "llm"
            /\ UNCHANGED failed
    /\ UNCHANGED << variant, documents, qa_chain,
                    conversations, request, response, invoked, arg, ret, threads >>

\* 5. llm = Ollama(...); except Exception: return False
InitLlm(raises) ==
    /\ phase = "llm"
    /\ IF raises THEN Abort ELSE phase' = "chain" /\ UNCHANGED failed
    /\ UNCHANGED << variant, documents, vectorstore, qa_chain,
                    conversations, request, response, invoked, arg, ret, threads >>

\* 6., 7. qa_chain = RetrievalQA.from_chain_type(...); return True; app.run(...)
InitChain(raises) ==
    /\ phase = "chain"
    /\ IF raises
       THEN Abort /\ UNCHANGED qa_chain
       ELSE /\ qa_chain' = [retriever |-> vectorstore, k |-> RetrieverK]
            /\ phase' = "serving"
            /\ UNCHANGED failed
    /\ UNCHANGED << variant, documents, vectorstore,
                    conversations, request, response, invoked, arg, ret, threads >>

------------------------------------------------------------------------------
(* src/app_old.py: chat(), get_history() and health_check() *)

\* What qa_chain.invoke does: it raises, it returns a result without the keys
\* chat() reads, or it returns an answer with the retrieved chunks.
ServedRetrievals ==
    { << >>,
      << Doc("datasets/a_b.pdf") >>,
      << Doc("datasets/a_b.pdf"), Doc("datasets/a b.pdf"), Doc("datasets/sub/c.pdf"),
         Doc("d.pdf"), DocNoSource >> }

InvokeOutcomes ==
    [kind : { "raise", "malformed" }, result : { "" }, source_documents : { << >> }]
    \cup [kind : { "ok" }, result : { Answer }, source_documents : ServedRetrievals]

\* str(e) of the exception a failed invoke ends in.
InvokeError(outcome) ==
    IF outcome.kind = "raise" THEN "Ollama call failed with status code 404" ELSE "'result'"

ErrorPrefix == "Error processing your question: "

\* Mutant of NotInitializedReply: the status code is left at its default.
NotInitializedReplyDefaultStatus ==
    Reply(200, [error |-> "RAG system not initialized. Please check server logs.",
                status |-> "error"])

\* The reply of chat() while qa_chain is None.
NotInitializedReply ==
    Reply(500, [error |-> "RAG system not initialized. Please check server logs.",
                status |-> "error"])

ChatRag(message, conversation_id) ==
    /\ variant = "rag"
    /\ phase = "serving"
    /\ request' = [kind |-> "chat", message |-> message, conversation_id |-> conversation_id]
    /\ IF qa_chain = None
       THEN /\ response' = NotInitializedReply
            /\ invoked' = FALSE
            /\ UNCHANGED conversations
       ELSE IF DataGet(message, "") = Null
       THEN \* .strip() raises; except Exception: 500
            /\ response' = Reply(500, [error |-> ErrorPrefix \o NoneStripError,
                                       status |-> "error"])
            /\ invoked' = FALSE
            /\ UNCHANGED conversations
       ELSE LET user_message == strip(DataGet(message, ""))
                id == DataGet(conversation_id, "default")
                asked == AppendTurn(conversations, id, Turn("user", user_message))
            IN  IF user_message = ""
                THEN /\ response' = Reply(400, [error |-> "Empty message"])
                     /\ invoked' = FALSE
                     /\ UNCHANGED conversations
                ELSE /\ TotalTurns(conversations) + 2 <= MaxTurns
                     /\ invoked' = TRUE
                     /\ \E outcome \in InvokeOutcomes :   \* result = qa_chain.invoke(...)
                          IF outcome.kind = "ok"
                          THEN LET bot_response ==
                                       AddSources(outcome.result, outcome.source_documents)
                               IN  /\ conversations' =
                                          AppendTurn(asked, id, Turn("bot", bot_response))
                                   /\ response' = Reply(200, [response |-> bot_response,
                                                               status |-> "success"])
                          ELSE \* except Exception: 500, the user turn stays stored
                               /\ conversations' = asked
                               /\ response' = Reply(500, [error |-> ErrorPrefix \o InvokeError(outcome),
                                                           status |-> "error"])
    /\ UNCHANGED << variant, phase, documents, vectorstore, qa_chain, failed, arg, ret, threads >>

\* Mutant of GetHistory: an unknown id is answered 404, as the export endpoint does.
GetHistoryOrNotFound(conversation_id) ==
    /\ variant = "rag"
    /\ phase = "serving"
    /\ request' = [kind |-> "history", conversation_id |-> conversation_id]
    /\ invoked' = FALSE
    /\ response' = IF conversation_id \in DOMAIN conversations
                   THEN Reply(200, [history |-> conversations[conversation_id]])
                   ELSE Reply(404, [error |-> "No conversation found"])
    /\ UNCHANGED << variant, phase, documents, vectorstore, qa_chain, failed,
                    conversations, arg, ret, threads >>

\* Mutant of GetHistory: the lookup creates the entry it does not find
\* (conversations.setdefault(conversation_id, [])).
GetHistorySetDefault(conversation_id) ==
    /\ variant = "rag"
    /\ phase = "serving"
    /\ request' = [kind |-> "history", conversation_id |-> conversation_id]
    /\ invoked' = FALSE
    /\ conversations' =
          [c \in DOMAIN conversations \cup { conversation_id } |->
              IF c \in DOMAIN conversations THEN conversations[c] ELSE << >>]
    /\ response' = Reply(200, [history |-> conversations'[conversation_id]])
    /\ UNCHANGED << variant, phase, documents, vectorstore, qa_chain, failed,
                    arg, ret, threads >>

\* conversations.get(conversation_id, [])
GetHistory(conversation_id) ==
    /\ variant = "rag"
    /\ phase = "serving"
    /\ request' = [kind |-> "history", conversation_id |-> conversation_id]
    /\ invoked' = FALSE
    /\ response' = Reply(200, [history |-> IF conversation_id \in DOMAIN conversations
                                            THEN conversations[conversation_id]
                                            ELSE << >>])
    /\ UNCHANGED << variant, phase, documents, vectorstore, qa_chain, failed,
                    conversations, arg, ret, threads >>

HealthRag ==
    /\ variant = "rag"
    /\ phase = "serving"
    /\ request' = [kind |-> "health"]
    /\ invoked' = FALSE
    /\ response' = Reply(200, [status |-> IF qa_chain # None THEN "healthy"
                                           ELSE "not_initialized",
                               rag_enabled |-> qa_chain # None])
    /\ UNCHANGED << variant, phase, documents, vectorstore, qa_chain, failed,
                    conversations, arg, ret, threads >>

------------------------------------------------------------------------------
(* The two programs *)

Init ==
    /\ variant \in { "keyword", "rag" }
    /\ phase = "start"
    /\ documents = None
    /\ vectorstore = None
    /\ qa_chain = None
    /\ failed = FALSE
    /\ conversations = << >>
    /\ request = NoRequest
    /\ response = None
    /\ invoked = FALSE
    /\ arg = None
    /\ ret = NotCalled
    /\ threads = << >>

Next ==
    \/ RunMain
    \/ ImportApp
    \/ \E exists \in BOOLEAN : InitDatasets(exists)
    \/ \E raises \in BOOLEAN, pages \in 0..MaxPages : InitLoad(raises, pages)
    \/ \E raises \in BOOLEAN : InitSplit(raises)
    \/ \E raises \in BOOLEAN : InitEmbeddings(raises)
    \/ \E raises \in BOOLEAN : InitVectorstore(raises)
    \/ \E raises \in BOOLEAN : InitLlm(raises)
    \/ \E raises \in BOOLEAN : InitChain(raises)
    \/ \E message \in Messages, conversation_id \in RequestIds :
          ChatKeyword(message, conversation_id)
    \/ HealthKeyword
    \/ \E message \in Messages, conversation_id \in RequestIds :
          ChatRag(message, conversation_id)
    \/ \E conversation_id \in HistoryIds : GetHistory(conversation_id)
    \/ HealthRag

Spec == Init /\ [][Next]_vars

------------------------------------------------------------------------------
(* chat() of either program handled by two threads at once *)

\* The threads of the server (Flask's development server handles each request
\* in a thread of its own).  A thread runs chat() statement by statement; the
\* interpreter may switch threads between any two statements.  The steps here
\* are coarser than the interpreter's (a subscript and the append that follows
\* it are one step), so every behaviour of SpecThreads is one of the program.
RequestThreads == { "t1", "t2" }

IdleThread ==
    [pc |-> "idle", user_message |-> "", conversation_id |-> "", bot_response |-> "",
     appended |-> 0, reply |-> None]

\* data = request.json ... if not user_message: return 400
ThreadReceive(t, message, conversation_id) ==
    /\ threads[t].pc = "idle"
    /\ threads' =
          [threads EXCEPT ![t] =
              IF variant = "rag" /\ qa_chain = None
              THEN [@ EXCEPT !.pc = "done", !.reply = NotInitializedReply]
              ELSE IF DataGet(message, "") = Null
              THEN [@ EXCEPT !.pc = "done",
                             !.reply = Reply(500, [error |-> NoneStripError])]
              ELSE IF strip(DataGet(message, "")) = ""
              THEN [@ EXCEPT !.pc = "done",
                             !.reply = Reply(400, [error |-> "Empty message"])]
              ELSE [@ EXCEPT !.pc = "test",
                             !.user_message = strip(DataGet(message, "")),
                             !.conversation_id = DataGet(conversation_id, "default")]]
    /\ UNCHANGED << serverVars, arg, ret >>

\* if conversation_id not in conversations:
ThreadTest(t) ==
    /\ threads[t].pc = "test"
    /\ threads' = [threads EXCEPT ![t].pc =
                      IF threads[t].conversation_id \notin DOMAIN conversations
                      THEN "create" ELSE "append_user"]
    /\ UNCHANGED << serverVars, arg, ret >>

\*     conversations[conversation_id] = []
ThreadCreate(t) ==
    /\ threads[t].pc = "create"
    /\ conversations' =
          [c \in DOMAIN conversations \cup { threads[t].conversation_id } |->
              IF c = threads[t].conversation_id THEN << >> ELSE conversations[c]]
    /\ threads' = [threads EXCEPT ![t].pc = "append_user"]
    /\ UNCHANGED << variant, phase, documents, vectorstore, qa_chain, failed,
                    request, response, invoked, arg, ret >>

\* conversations[conversation_id].append({'role': 'user', ...})
ThreadAppendUser(t) ==
    /\ threads[t].pc = "append_user"
    /\ conversations' =
          [conversations EXCEPT ![threads[t].conversation_id] =
              Append(@, Turn("user", threads[t].user_message))]
    /\ threads' = [threads EXCEPT ![t].pc = "answer", ![t].appended = @ + 1]
    /\ UNCHANGED << variant, phase, documents, vectorstore, qa_chain, failed,
                    request, response, invoked, arg, ret >>

\* bot_response = find_best_response(...), or qa_chain.invoke(...) and the sources
ThreadAnswer(t) ==
    /\ threads[t].pc = "answer"
    /\ IF variant = "keyword"
       THEN threads' =
               [threads EXCEPT ![t].pc = "append_bot",
                               ![t].bot_response =
                                   find_best_response(threads[t].user_message,
                                                      threads[t].conversation_id)]
       ELSE \E outcome \in InvokeOutcomes :
               threads' =
                  [threads EXCEPT ![t] =
                      IF outcome.kind = "ok"
                      THEN [@ EXCEPT !.pc = "append_bot",
                                     !.bot_response = AddSources(outcome.result,
                                                                 outcome.source_documents)]
                      ELSE [@ EXCEPT !.pc = "done",
                                     !.reply = Reply(500, [error |-> ErrorPrefix \o InvokeError(outcome),
                                                           status |-> "error"])]]
    /\ UNCHANGED << serverVars, arg, ret >>

\* conversations[conversation_id].append({'role': 'bot', ...}); return jsonify(...)
ThreadAppendBot(t) ==
    /\ threads[t].pc = "append_bot"
    /\ conversations' =
          [conversations EXCEPT ![threads[t].conversation_id] =
              Append(@, Turn("bot", threads[t].bot_response))]
    /\ threads' = [threads EXCEPT ![t].pc = "done",
                                  ![t].appended = @ + 1,
                                  ![t].reply = Reply(200, [response |-> threads[t].bot_response,
                                                           status |-> "success"])]
    /\ UNCHANGED << variant, phase, documents, vectorstore, qa_chain, failed,
                    request, response, invoked, arg, ret >>

\* A server that serves: the keyword variant, or the RAG variant after a
\* start-up that loaded a page.
InitThreads ==
    /\ variant \in { "keyword", "rag" }
    /\ phase = "serving"
    /\ documents = IF variant = "rag" THEN [pages |-> 1] ELSE None
    /\ vectorstore = IF variant = "rag" THEN [indexed |-> 1] ELSE None
    /\ qa_chain = IF variant = "rag"
                  THEN [retriever |-> [indexed |-> 1], k |-> RetrieverK]
                  ELSE None
    /\ failed = FALSE
    /\ conversations = << >>
    /\ request = NoRequest
    /\ response = None
    /\ invoked = FALSE
    /\ arg = None
    /\ ret = NotCalled
    /\ threads = [t \in RequestThreads |-> IdleThread]

NextThreads ==
    \E t \in RequestThreads :
        \/ \E message \in Messages, conversation_id \in RequestIds :
              ThreadReceive(t, message, conversation_id)
        \/ ThreadTest(t)
        \/ ThreadCreate(t)
        \/ ThreadAppendUser(t)
        \/ ThreadAnswer(t)
        \/ ThreadAppendBot(t)

SpecThreads == InitThreads /\ [][NextThreads]_vars

------------------------------------------------------------------------------
(* Properties of find_best_response, under SpecMatch *)

KbIndexes == 1..Len(KNOWLEDGE_BASE)

\* The number of keyword strings of category i that occur as substrings of the
\* lowercased, trimmed query.
KeywordHits(i, query) ==
    LET message == strip(lower(query))
        keywords == KNOWLEDGE_BASE[i].keywords
    IN  Cardinality({ k \in 1..Len(keywords) : Contains(message, keywords[k]) })

SomeHit(query) == \E i \in KbIndexes : KeywordHits(i, query) > 0

\* C1: a query whose hits fall in exactly one category gets that category's
\* response, and whenever some category is hit the response returned is that of
\* a category whose hit count no other category exceeds (of two categories hit
\* with unequal counts, the one with the smaller count never wins).
C1_HighestScoreWins ==
    ret.called =>
        /\ \A i \in KbIndexes :
              ( /\ KeywordHits(i, arg) > 0
                /\ \A j \in KbIndexes \ { i } : KeywordHits(j, arg) = 0 )
              => ret.value = KNOWLEDGE_BASE[i].response
        /\ SomeHit(arg) =>
              \E i \in KbIndexes :
                  /\ ret.value = KNOWLEDGE_BASE[i].response
                  /\ \A j \in KbIndexes : KeywordHits(j, arg) <= KeywordHits(i, arg)
        /\ \A i, j \in KbIndexes :
              (0 < KeywordHits(j, arg) /\ KeywordHits(j, arg) < KeywordHits(i, arg))
              => ret.value # KNOWLEDGE_BASE[j].response

\* A query answered whose later-registered category has more hits than an
\* earlier-registered one that is hit too.
C1_Witness ==
    /\ ret.called
    /\ \E i, j \in KbIndexes :
          /\ i < j
          /\ 0 < KeywordHits(i, arg)
          /\ KeywordHits(i, arg) < KeywordHits(j, arg)
          /\ ret.value = KNOWLEDGE_BASE[j].response

\* The position of an element in a list without repetitions.
PositionIn(list, x) == CHOOSE p \in 1..Len(list) : list[p] = x

\* C2: when several categories share the highest hit count the response is that
\* of the one registered first, and the sort keeps the matches of equal score
\* in their insertion order.
C2_TieFirstRegistered ==
    ret.called =>
        /\ SomeHit(arg) =>
              LET first == CHOOSE i \in KbIndexes :
                               /\ \A j \in KbIndexes : KeywordHits(j, arg) <= KeywordHits(i, arg)
                               /\ \A j \in 1..(i - 1) : KeywordHits(j, arg) < KeywordHits(i, arg)
              IN  ret.value = KNOWLEDGE_BASE[first].response
        /\ LET matches == Matches(KNOWLEDGE_BASE, strip(lower(arg)))
               sorted == SortDesc(matches)
           IN  \A a, b \in 1..Len(sorted) :
                  (a < b /\ sorted[a][1] = sorted[b][1])
                  => PositionIn(matches, sorted[a]) < PositionIn(matches, sorted[b])

\* A query answered for which two categories share the highest hit count.
C2_Witness ==
    /\ ret.called
    /\ \E i, j \in KbIndexes :
          /\ i < j
          /\ KeywordHits(i, arg) = KeywordHits(j, arg)
          /\ KeywordHits(i, arg) > 0
          /\ \A k \in KbIndexes : KeywordHits(k, arg) <= KeywordHits(i, arg)
          /\ ret.value = KNOWLEDGE_BASE[i].response

\* C3: the menu response is returned exactly for the queries in which no keyword
\* of any category occurs.
C3_MenuIffNoHit ==
    ret.called => (ret.value = MenuResponse <=> ~SomeHit(arg))

\* A non-empty query without any keyword, answered by the menu.
C3_Witness ==
    /\ ret.called
    /\ strip(arg) # ""
    /\ ~SomeHit(arg)
    /\ ret.value = MenuResponse

------------------------------------------------------------------------------
(* Properties of the source attribution, under SpecSources *)

DisplayNames(docs) == [i \in 1..Len(docs) |-> CleanName(docs[i])]

\* The positions at which a display name appears for the first time.
FirstSeen(docs) ==
    LET names == DisplayNames(docs)
    IN  { i \in 1..Len(docs) : \A j \in 1..(i - 1) : names[j] # names[i] }

\* The display names at the first n of the positions, in increasing position.
RECURSIVE NamesAt(_, _, _)
NamesAt(docs, positions, n) ==
    IF positions = {} \/ n = 0 THEN << >>
    ELSE LET p == CHOOSE p \in positions : \A q \in positions : p <= q
         IN  << DisplayNames(docs)[p] >> \o NamesAt(docs, positions \ { p }, n - 1)

ExpectedSources(docs) == NamesAt(docs, FirstSeen(docs), MaxShownSources)

\* C10: the answer is followed by the display names of the retrieved chunks,
\* each once, in the order of first appearance, at most 3 of them; without a
\* retrieved chunk the answer has no Sources section.
C10_SourcesDedupFirstSeenCapped ==
    ret.called =>
        IF arg = << >>
        THEN ret.value = Answer /\ ~Contains(ret.value, "**Sources:**")
        ELSE LET expected == ExpectedSources(arg)
             IN  /\ Len(expected) <= MaxShownSources
                 /\ ret.value =
                       Answer \o SourcesHeader \o
                       JoinLines([i \in 1..Len(expected) |-> Bullet \o expected[i]])

\* An attribution of chunks with a repeated display name and more than 3
\* different ones.
C10_Witness ==
    /\ ret.called
    /\ Cardinality(FirstSeen(arg)) > MaxShownSources
    /\ Cardinality(FirstSeen(arg)) < Len(arg)
    /\ 2 \notin FirstSeen(arg)

------------------------------------------------------------------------------
(* Properties of the servers, under Spec *)

\* A 'message' of a chat request that is empty or white space only (a request
\* without the key has the default '').
BlankMessage(message) ==
    /\ message # Null
    /\ \/ message = Absent
       \/ \A i \in 1..Len(message) : SubSeq(message, i, i) \in Whitespace

Ready == qa_chain # None

\* C4 as stated: in every state of either server a chat request with a blank
\* message is answered 400.
C4_BlankAlways400 ==
    (request.kind = "chat" /\ BlankMessage(request.message))
    => response.status = 400

\* C4 as amended: a chat request with a blank message is answered 400 by the
\* keyword variant and by the RAG variant when it is ready; the RAG variant
\* that is not ready answers it 500, as it answers every chat request.
C4_Blank400UnlessNotReady ==
    (request.kind = "chat" /\ BlankMessage(request.message))
    => IF variant = "rag" /\ ~Ready
       THEN response.status = 500
       ELSE response.status = 400 /\ response.body = [error |-> "Empty message"]

\* The ready RAG server has answered a chat request of white space only.
C4_Witness ==
    /\ variant = "rag"
    /\ Ready
    /\ request.kind = "chat"
    /\ request.message = "  "
    /\ response.status = 400

\* C5 as stated: a chat request during which the generator was invoked is
\* answered 200, whatever the invocation did, and never with the exception text.
C5_GenerationFailureRecovered ==
    (variant = "rag" /\ request.kind = "chat" /\ invoked)
    => /\ response.status = 200
       /\ "error" \notin DOMAIN response.body

\* C6: a step never removes a conversation id and leaves every stored turn at
\* its position: the old turn list is a prefix of the new one.
C6_AppendOnly ==
    [][ \A c \in DOMAIN conversations :
          /\ c \in DOMAIN conversations'
          /\ Len(conversations[c]) <= Len(conversations'[c])
          /\ \A i \in 1..Len(conversations[c]) :
                conversations'[c][i] = conversations[c][i] ]_vars

\* A conversation that was appended to when it held turns already, beside
\* another conversation.
C6_Witness ==
    /\ \E c \in DOMAIN conversations : Len(conversations[c]) > 2
    /\ Cardinality(DOMAIN conversations) > 1

\* C7: a history request is answered 200 with the stored turn list of the id,
\* and with the empty list for an id the store does not hold.
C7_HistoryFullOrEmpty ==
    request.kind = "history" =>
        /\ response.status = 200
        /\ response.body.history =
              IF request.conversation_id \in DOMAIN conversations
              THEN conversations[request.conversation_id]
              ELSE << >>
        /\ (\A c \in DOMAIN conversations : c # request.conversation_id)
              => response.body = [history |-> << >>]

\* A history request for an id no chat request used, while the store holds
\* turns of another conversation.
C7_Witness ==
    /\ request.kind = "history"
    /\ request.conversation_id \notin DOMAIN conversations
    /\ \E c \in DOMAIN conversations : Len(conversations[c]) > 0
    /\ response = Reply(200, [history |-> << >>])

\* C8: the RAG server is ready only after every step of the start-up succeeded:
\* no step has failed, pages were loaded, the index holds all of them, and the
\* process has gone on to serve; after a failed step it is never ready; and
\* the health check reports exactly this flag.
C8_ReadyOnlyAfterFullInit ==
    /\ Ready =>
          /\ ~failed
          /\ phase = "serving"
          /\ documents # None
          /\ documents.pages > 0
          /\ vectorstore # None
          /\ vectorstore.indexed = documents.pages
          /\ qa_chain.retriever = vectorstore
    /\ failed => ~Ready
    /\ (variant = "rag" /\ request.kind = "health")
          => /\ response.body.rag_enabled = Ready
             /\ response.body.status = IF Ready THEN "healthy" ELSE "not_initialized"

\* The health check of a ready RAG server.
C8_Witness ==
    /\ Ready
    /\ request.kind = "health"
    /\ response.body.rag_enabled

\* C9: the RAG server that is not ready answers every chat request 500 with
\* status "error", without invoking the generator, and stores nothing.
C9_NotReady500 ==
    (variant = "rag" /\ ~Ready) =>
        /\ request.kind = "chat" =>
              /\ response.status = 500
              /\ response.body.status = "error"
        /\ ~invoked
        /\ conversations = << >>

\* The RAG server that is not ready has answered a chat request with a message.
C9_Witness ==
    /\ variant = "rag"
    /\ ~Ready
    /\ request.kind = "chat"
    /\ request.message = "hello"
    /\ response.status = 500

\* The conversation a chat request writes to.
RequestConversation(req) == DataGet(req.conversation_id, "default")

\* C12 as stated: every turn list has even length and alternates user, bot, and
\* the bot turn a successful chat request stored last is the response returned.
C12_UserBotPairs ==
    /\ \A c \in DOMAIN conversations :
          /\ Len(conversations[c]) % 2 = 0
          /\ \A i \in 1..Len(conversations[c]) :
                conversations[c][i].role = IF i % 2 = 1 THEN "user" ELSE "bot"
    /\ (request.kind = "chat" /\ response.status = 200) =>
          LET turns == conversations[RequestConversation(request)]
          IN  /\ turns[Len(turns)] = Turn("bot", response.body.response)
              /\ turns[Len(turns) - 1].role = "user"

\* A step of a serving server handles the request it leaves in request'.
Rejected(req, resp) ==
    /\ req.kind = "chat"
    /\ \/ resp.status = 400
       \/ variant = "rag" /\ ~Ready

\* C13: a rejected chat request (400, or 500 of the unready RAG server), a
\* history request and a health request leave the store as it was; a
\* successful chat request appends exactly two turns to its conversation
\* ('default' without an id) and leaves every other conversation as it was.
C13_Frame ==
    [][ phase = "serving" =>
          /\ (Rejected(request', response') \/ request'.kind \in { "history", "health" })
                => conversations' = conversations
          /\ (request'.kind = "chat" /\ response'.status = 200) =>
                LET c == RequestConversation(request')
                    old == IF c \in DOMAIN conversations THEN conversations[c] ELSE << >>
                IN  /\ DOMAIN conversations' = DOMAIN conversations \cup { c }
                    /\ Len(conversations'[c]) = Len(old) + 2
                    /\ SubSeq(conversations'[c], 1, Len(old)) = old
                    /\ \A d \in DOMAIN conversations \ { c } :
                          conversations'[d] = conversations[d] ]_vars

\* A chat request without an id was answered and stored under 'default' beside
\* another conversation.
C13_Witness ==
    /\ request.kind = "chat"
    /\ request.conversation_id = Absent
    /\ response.status = 200
    /\ DOMAIN conversations = { "default", "c1" }
    /\ Len(conversations["default"]) = 2
    /\ Len(conversations["c1"]) = 2

\* The answer to a message, from the message alone: the menu when no keyword
\* occurs in it, else the response of the first category among those with the
\* most hits.
ExpectedAnswer(message) ==
    IF ~SomeHit(message) THEN MenuResponse
    ELSE LET first == CHOOSE i \in KbIndexes :
                         /\ \A j \in KbIndexes : KeywordHits(j, message) <= KeywordHits(i, message)
                         /\ \A j \in 1..(i - 1) : KeywordHits(j, message) < KeywordHits(i, message)
         IN  KNOWLEDGE_BASE[first].response

\* C14: in every state any run of the keyword variant reaches, whatever the
\* conversation id of the request and the turns stored before it, the response
\* text is ExpectedAnswer of the message, which reads nothing but the message:
\* two runs answer the same message with the same text.
C14_AnswerFromMessageAlone ==
    (variant = "keyword" /\ request.kind = "chat" /\ response.status = 200)
    => response.body.response = ExpectedAnswer(request.message)

\* The keyword variant has answered, with a category response, a request in a
\* conversation that held the turns of an earlier request.
C14_Witness ==
    /\ variant = "keyword"
    /\ request.kind = "chat"
    /\ response.status = 200
    /\ Len(conversations[RequestConversation(request)]) = 4
    /\ response.body.response # MenuResponse

------------------------------------------------------------------------------
(* Properties of chat() handled by two threads, under SpecThreads *)

\* The turns the threads have appended to conversation c.
RECURSIVE AppendedTo(_, _)
AppendedTo(c, ts) ==
    IF ts = {} THEN 0
    ELSE LET t == CHOOSE t \in ts : TRUE
         IN  (IF threads[t].conversation_id = c THEN threads[t].appended ELSE 0)
             + AppendedTo(c, ts \ { t })

\* C11 as stated: once both requests are complete, every turn either of them
\* appended is in the store: each conversation holds as many turns as were
\* appended to it.
C11_NoLostUpdate ==
    (\A t \in RequestThreads : threads[t].pc = "done") =>
        \A c \in ConversationIds :
            AppendedTo(c, RequestThreads) =
                IF c \in DOMAIN conversations THEN Len(conversations[c]) ELSE 0

=============================================================================
